---- MODULE Spec2Model ----
(***************************************************************************)
(* Model of processor/src/substrate_signer.rs: the SubstrateSigner, which  *)
(* drives one FROST signing session per Batch, keyed by the batch's block  *)
(* hash.  The store (SubstrateSignerDb) survives a restart, the four       *)
(* HashMaps and the event queue do not.                                    *)
(*                                                                         *)
(* Option<T> and "HashMap entry absent" are modelled as sets of at most    *)
(* one element: {} is None, {v} is Some(v).                                *)
(***************************************************************************)
EXTENDS Integers, Sequences, FiniteSets, Bags, TLC

\* ------------------------------------------------------------------ bounds
MaxAttempt == 2    \* largest attempt index (u32) a message carries
NumBodies == 2     \* distinct Batch contents sharing one block hash

\* The batch id (block hash) the sessions are keyed by.  Every HashMap and
\* every store key is indexed by the id, and no handler reads or writes an
\* entry of an id other than the one it is called with, so one id is tracked.
BID == "0x11..11"
Ids == {BID}
Attempts == 0 .. MaxAttempt
Bodies == 1 .. NumBodies

\* self.keys.group_key(): one keyset per signer
GroupKey == "GK"

\* Batch { block, .. }: the block hash is the session key, the rest is body
Batch == [block : Ids, body : Bodies]

\* messages::sign::SignId { key, id, attempt }
SignId(id, a) == [key |-> GroupKey, id |-> id, attempt |-> a]

\* scale::Encode of a Batch: an injective byte string of its fields
Encode(batch) == <<"block", batch.block, "body", batch.body>>

\* SubstrateSignerEvent::ProcessorMessage(BatchPreprocess { id, preprocess })
BatchPreprocess(id, a) ==
  [type |-> "BatchPreprocess", id |-> SignId(id, a), data |-> <<"commitments", id, a>>]

\* SubstrateSignerEvent::ProcessorMessage(BatchShare { id, share })
BatchShare(id, a, msg) ==
  [type |-> "BatchShare", id |-> SignId(id, a), data |-> <<"share", id, a, msg>>]

\* SubstrateSignerEvent::SignedBatch(SignedBatch { batch, signature })
SignedBatch(batch, sig) ==
  [type |-> "SignedBatch", batch |-> batch, signature |-> sig]

\* ------------------------------------------------------------------- state
VARIABLES
  dbCompleted,    \* store: ids with a "completed" key
  dbAttempt,      \* store: SignIds with an "attempt" key
  dbBatch,        \* store: "batch" key -> encoded SignedBatch, by block
  signable,       \* HashMap<[u8; 32], Batch>
  attempt,        \* HashMap<[u8; 32], u32>
  preprocessing,  \* HashMap<[u8; 32], AlgorithmSignMachine>
  signing,        \* HashMap<[u8; 32], AlgorithmSignatureMachine>
  events,         \* VecDeque<SubstrateSignerEvent>: every push_back of this
                  \* process in order; the host has popped some prefix of it
  panicked,       \* the process hit panic!/todo!/a failed assert or unwrap
  emitted,        \* history: bag of every event ever pushed to events
  last            \* history: the latest call and where it returned

vars == <<dbCompleted, dbAttempt, dbBatch, signable, attempt, preprocessing,
          signing, events, panicked, emitted, last>>

mem == <<signable, attempt, preprocessing, signing>>
store == <<dbCompleted, dbAttempt, dbBatch>>

EmptyMap == [id \in Ids |-> {}]

Call(op, id, a, res) == [op |-> op, id |-> id, attempt |-> a, res |-> res]

\* SubstrateSigner::new
Init ==
  /\ dbCompleted = {}
  /\ dbAttempt = {}
  /\ dbBatch = EmptyMap
  /\ signable = EmptyMap
  /\ attempt = EmptyMap
  /\ preprocessing = EmptyMap
  /\ signing = EmptyMap
  /\ events = <<>>
  /\ panicked = FALSE
  /\ emitted = EmptyBag
  /\ last = Call("new", BID, 0, "ok")

\* ---------------------------------------------------------- SubstrateSignerDb
\* completed, were it never to find the key
completed_unchecked(id) == FALSE

\* SubstrateSignerDb::completed
completed(id) == id \in dbCompleted

\* complete, were its put left out of the transaction
complete_skipped(id) == dbCompleted

\* SubstrateSignerDb::complete, committed
complete(id) == dbCompleted \cup {id}

\* has_attempt, were the replay guard never to find the key
has_attempt_forgotten(sid) == FALSE

\* SubstrateSignerDb::has_attempt
has_attempt(sid) == sid \in dbAttempt

\* attempt's commit, were the put of the sentinel left out
db_attempt_skipped(sid) == dbAttempt

\* SubstrateSignerDb::attempt, committed
db_attempt(sid) == dbAttempt \cup {sid}

\* save_batch, were its put left out of the transaction
save_batch_skipped(signed) == dbBatch

\* SubstrateSignerDb::save_batch, committed
save_batch(signed) == [dbBatch EXCEPT ![signed.batch.block] = {signed}]

\* a get in place of the remove: the machine stays in the map
TakeMachine_kept(map, id) == map

\* HashMap::remove(&id) on one of the machine maps: the map it leaves
TakeMachine(map, id) == [map EXCEPT ![id] = {}]

\* batch_signed, were its removes left out
RemoveEntry_kept(map, id) == map

\* HashMap::remove(&id) in batch_signed: the map it leaves
RemoveEntry(map, id) == [map EXCEPT ![id] = {}]

\* events.push_back, with the history of pushes
Push(ev) ==
  /\ events' = Append(events, ev)
  /\ emitted' = emitted (+) SetToBag({ev})

NoPush == UNCHANGED <<events, emitted>>

\* -------------------------------------------------------------- verify_id
\* verify_id, were it to accept every attempt up to the logged one
verify_id_atMost(id, a) == \E c \in attempt[id] : a <= c

\* verify_id, were it to check only that an attempt is logged
verify_id_present(id, a) == attempt[id] # {}

\* SubstrateSigner::verify_id
verify_id(id, a) == attempt[id] = {a}

\* ---------------------------------------------------------------- attempt
\* attempt, were it to refuse only the attempt it is working on
AlreadyWorking_equal(curr, a) == a \in curr

\* attempt, were it to refuse whenever an attempt is logged
AlreadyWorking_any(curr, a) == curr # {}

\* attempt, were the check of the current attempt left out
AlreadyWorking_never(curr, a) == FALSE

\* "Check if we're already working on this attempt"
AlreadyWorking(curr, a) == \E c \in curr : c >= a

\* attempt, were the check of signable left out
Signable_any(sg, id) == TRUE

\* "Start this attempt": self.signable.contains_key(&id)
Signable(sg, id) == sg[id] # {}

\* Where SubstrateSigner::attempt returns, given the signable map it sees
AttemptOutcome(id, a, sg) ==
  IF completed(id) THEN "completed"
  ELSE IF AlreadyWorking(attempt[id], a) THEN "working"
  ELSE IF ~Signable(sg, id) THEN "unsignable"
  ELSE IF has_attempt(SignId(id, a)) THEN "replayed"
  ELSE "started"

\* attempt, were the replay guard moved above the removal of the machines
ReachesUpdate_guardFirst(out) == out = "started"

\* attempt gets past its first three checks: it removes the machines and
\* inserts the attempt number
ReachesUpdate(out) == out \in {"replayed", "started"}

\* The round-one machine made by AlgorithmMachine::new(..).preprocess(OsRng):
\* its nonces are those drawn for this SignId
PreprocessMachine(id, a) == [nonces |-> SignId(id, a)]

\* The round-two machine made by machine.sign(preprocesses, msg)
SignMachine(m, msg) == [nonces |-> m.nonces, msg |-> msg]

\* The signature made by machine.complete(shares): it is over the machine's msg
Signature(m) == [key |-> GroupKey, msg |-> m.msg]

\* SubstrateSigner::attempt, run to its return
StartAttempt(id, a, sg) ==
  LET out == AttemptOutcome(id, a, sg) IN
  /\ attempt' = IF ReachesUpdate(out)
                  THEN [attempt EXCEPT ![id] = {a}] ELSE attempt
  /\ signing' = IF ReachesUpdate(out)
                  THEN [signing EXCEPT ![id] = {}] ELSE signing
  /\ preprocessing' =
       IF out = "started"
         THEN [preprocessing EXCEPT ![id] = {PreprocessMachine(id, a)}]
       ELSE IF ReachesUpdate(out) THEN [preprocessing EXCEPT ![id] = {}]
       ELSE preprocessing
  /\ dbAttempt' = IF out = "started" THEN db_attempt(SignId(id, a))
                  ELSE dbAttempt
  /\ IF out = "started" THEN Push(BatchPreprocess(id, a)) ELSE NoPush
  /\ UNCHANGED <<dbCompleted, dbBatch, panicked>>

\* ------------------------------------------------------------------- sign
sign(batch) ==
  LET id == batch.block IN
  /\ ~panicked
  /\ IF completed(id)
       THEN /\ last' = Call("sign", id, 0, "completed")
            /\ UNCHANGED <<store, mem, events, panicked, emitted>>
       ELSE LET sg == [signable EXCEPT ![id] = {batch}] IN
            /\ signable' = sg
            /\ StartAttempt(id, 0, sg)
            /\ last' = Call("sign", id, 0, AttemptOutcome(id, 0, sg))

\* ------------------------------------------------- handle(BatchReattempt)
BatchReattempt(id, a) ==
  /\ ~panicked
  /\ StartAttempt(id, a, signable)
  /\ UNCHANGED signable
  /\ last' = Call("BatchReattempt", id, a, AttemptOutcome(id, a, signable))

\* --------------------------------------------- handle(BatchPreprocesses)
\* ok: every preprocess parses (read_preprocess) and machine.sign accepts them
PreprocessesOutcome(id, a, ok) ==
  IF ~verify_id(id, a) THEN "badId"
  ELSE IF preprocessing[id] = {} THEN "noMachine"
  ELSE IF ~ok THEN "malicious"
  ELSE IF signable[id] = {} THEN "noBatch"
  ELSE "shared"

BatchPreprocesses(id, a, ok) ==
  LET out == PreprocessesOutcome(id, a, ok) IN
  /\ ~panicked
  /\ last' = Call("BatchPreprocesses", id, a, out)
  /\ preprocessing' = IF out \in {"badId", "noMachine"} THEN preprocessing
                      ELSE TakeMachine(preprocessing, id)
  /\ panicked' = (out \in {"malicious", "noBatch"})
  /\ IF out = "shared"
       THEN LET machine == CHOOSE m \in preprocessing[id] : TRUE
                batch == CHOOSE b \in signable[id] : TRUE
                msg == Encode(batch)
            IN /\ signing' = [signing EXCEPT ![id] = {SignMachine(machine, msg)}]
               /\ Push(BatchShare(id, a, msg))
       ELSE /\ UNCHANGED signing
            /\ NoPush
  /\ UNCHANGED <<store, signable, attempt>>

\* --------------------------------------------------- handle(BatchShares)
\* the check under "never preprocessed yet signing?", were it left out
NeverPreprocessed_unchecked(id) == FALSE

\* self.preprocessing.contains_key(&id.id), asked when signing has no machine
NeverPreprocessed(id) == preprocessing[id] # {}

\* ok: every share parses (read_share) and machine.complete accepts them
SharesOutcome(id, a, ok) ==
  IF ~verify_id(id, a) THEN "badId"
  ELSE IF signing[id] = {} THEN
    (IF NeverPreprocessed(id) THEN "neverPreprocessed" ELSE "noMachine")
  ELSE IF ~ok THEN "malicious"
  ELSE IF signable[id] = {} THEN "noBatch"
  ELSE IF preprocessing[id] # {} THEN "assertFailed"
  ELSE "signed"

\* the SignedBatch built at "let batch = SignedBatch { .. }"
BuiltSignedBatch(id) ==
  LET machine == CHOOSE m \in signing[id] : TRUE
      batch == CHOOSE b \in signable[id] : TRUE
  IN SignedBatch(batch, Signature(machine))

BatchShares(id, a, ok) ==
  LET out == SharesOutcome(id, a, ok)
      committed == out \in {"assertFailed", "signed"}
  IN
  /\ ~panicked
  /\ last' = Call("BatchShares", id, a, out)
  /\ signing' = IF out \in {"badId", "neverPreprocessed", "noMachine"} THEN signing
                ELSE TakeMachine(signing, id)
  /\ panicked' = (out \in {"neverPreprocessed", "malicious", "noBatch", "assertFailed"})
  /\ signable' = IF committed THEN [signable EXCEPT ![id] = {}] ELSE signable
  /\ attempt' = IF committed THEN [attempt EXCEPT ![id] = {}] ELSE attempt
  /\ preprocessing' = IF committed THEN [preprocessing EXCEPT ![id] = {}]
                      ELSE preprocessing
  /\ dbBatch' = IF committed THEN save_batch(BuiltSignedBatch(id)) ELSE dbBatch
  /\ dbCompleted' = IF committed THEN complete(id) ELSE dbCompleted
  /\ IF out = "signed" THEN Push(BuiltSignedBatch(id)) ELSE NoPush
  /\ UNCHANGED dbAttempt

\* ----------------------------------------------------------- batch_signed
batch_signed(id) ==
  /\ ~panicked
  /\ last' = Call("batch_signed", id, 0, "ok")
  /\ dbCompleted' = complete(id)
  /\ signable' = RemoveEntry(signable, id)
  /\ attempt' = RemoveEntry(attempt, id)
  /\ preprocessing' = RemoveEntry(preprocessing, id)
  /\ signing' = RemoveEntry(signing, id)
  /\ UNCHANGED <<dbAttempt, dbBatch, events, panicked, emitted>>

\* --------------------------------------------------------- crash / restart
\* What a new process starts from: SubstrateSigner::new over the same store
FreshInstance ==
  /\ signable' = EmptyMap
  /\ attempt' = EmptyMap
  /\ preprocessing' = EmptyMap
  /\ signing' = EmptyMap
  /\ events' = <<>>
  /\ panicked' = FALSE
  /\ UNCHANGED emitted

\* the process dies between calls (or after a panic) and is started again
Restart ==
  /\ FreshInstance
  /\ last' = Call("restart", BID, 0, "ok")
  /\ UNCHANGED store

\* the process dies inside attempt, after txn.commit() and before push_back
CrashInAttempt(id, a) ==
  /\ ~panicked
  /\ \/ AttemptOutcome(id, a, signable) = "started"
     \/ a = 0 /\ ~completed(id)
          /\ AttemptOutcome(id, 0, [signable EXCEPT ![id] = {[block |-> id, body |-> 1]}])
               = "started"
  /\ dbAttempt' = db_attempt(SignId(id, a))
  /\ FreshInstance
  /\ last' = Call("crashInAttempt", id, a, "ok")
  /\ UNCHANGED <<dbCompleted, dbBatch>>

\* the process dies inside handle(BatchShares), after txn.commit() and before
\* push_back
CrashInShares(id, a) ==
  /\ ~panicked
  /\ SharesOutcome(id, a, TRUE) \in {"assertFailed", "signed"}
  /\ dbBatch' = save_batch(BuiltSignedBatch(id))
  /\ dbCompleted' = complete(id)
  /\ FreshInstance
  /\ last' = Call("crashInShares", id, a, "ok")
  /\ UNCHANGED dbAttempt

\* ------------------------------------------------------------------- spec
Next ==
  \/ \E batch \in Batch : sign(batch)
  \/ \E id \in Ids, a \in Attempts : BatchReattempt(id, a)
  \/ \E id \in Ids, a \in Attempts, ok \in BOOLEAN : BatchPreprocesses(id, a, ok)
  \/ \E id \in Ids, a \in Attempts, ok \in BOOLEAN : BatchShares(id, a, ok)
  \/ \E id \in Ids : batch_signed(id)
  \/ Restart
  \/ \E id \in Ids, a \in Attempts : CrashInAttempt(id, a)
  \/ \E id \in Ids, a \in Attempts : CrashInShares(id, a)

Spec == Init /\ [][Next]_vars

TypeOK ==
  /\ dbCompleted \subseteq Ids
  /\ \A id \in Ids : Cardinality(attempt[id]) <= 1 /\ attempt[id] \subseteq Attempts
  /\ \A id \in Ids : signable[id] \subseteq Batch /\ Cardinality(signable[id]) <= 1
  /\ panicked \in BOOLEAN

\* ============================================================ properties
\* how often ev was pushed over the whole lifetime of the store
Pushed(ev) == CopiesIn(ev, emitted)

\* ev was pushed by the running process
InEvents(ev) == \E i \in DOMAIN events : events[i] = ev

\* the step pushes ev
Pushes(ev) == Pushed(ev)' > Pushed(ev)

\* the set of events ever pushed
EverPushed == BagToSet(emitted)

HandleOps == {"BatchPreprocesses", "BatchShares", "BatchReattempt"}
CallOps == HandleOps \cup {"sign", "batch_signed"}

\* the step is a call of one of ops for batch id
Calls(ops, id) == last'.op \in ops /\ last'.id = id

\* the step leaves the four maps, the store and the queue as they are
NoEffect == UNCHANGED <<mem, store, events, emitted>>

\* ------------------------------------------------------------------- C1
\* C1 (nonce safety): over the whole lifetime of the store, restarts
\* included, a BatchPreprocess for a given (batch id, attempt) is pushed at
\* most once.
C1_NonceSafety ==
  \A id \in Ids, a \in Attempts : Pushed(BatchPreprocess(id, a)) <= 1

\* a restarted process was told to start an attempt that an earlier process
\* had preprocessed, and refused
C1_Witness ==
  /\ last.res = "replayed"
  /\ Pushed(BatchPreprocess(last.id, last.attempt)) = 1
  /\ ~InEvents(BatchPreprocess(last.id, last.attempt))

\* ------------------------------------------------------------------- C2
\* C2 (durability before emit): a SignedBatch in the events queue has its
\* Batch record and its Completed sentinel in the store.
C2_DurabilityBeforeEmit ==
  \A i \in DOMAIN events :
    events[i].type = "SignedBatch" =>
      /\ events[i].batch.block \in dbCompleted
      /\ dbBatch[events[i].batch.block] # {}

C2_Witness ==
  /\ last.op = "BatchShares"
  /\ last.res = "signed"
  /\ \E i \in DOMAIN events : events[i].type = "SignedBatch"

\* ------------------------------------------------------------------- C3
\* C3 (completion absorbs): once Completed(B) is in the store it stays, and
\* every sign, handle or batch_signed for B leaves the maps, the store and
\* the queue as they are (batch_signed re-writes the sentinel).
C3_CompletionAbsorbs ==
  [][\A id \in Ids :
       id \in dbCompleted =>
         /\ id \in dbCompleted'
         /\ Calls(CallOps, id) => NoEffect]_vars

\* a start of an attempt was refused because the batch is completed, in a
\* process other than the one that completed it
C3_Witness ==
  /\ last.op \in {"sign", "BatchReattempt"}
  /\ last.res = "completed"
  /\ last.id \in dbCompleted
  /\ events = <<>>
  /\ \E ev \in EverPushed : ev.type = "SignedBatch"

\* ------------------------------------------------------------------- C4
\* C4 as stated: over the whole lifetime, each BatchPreprocess pushed for a
\* batch id carries an attempt index above every index preprocessed before.
C4_MonotonicLifetime ==
  [][\A id \in Ids, a \in Attempts :
       Pushes(BatchPreprocess(id, a)) =>
         \A a0 \in Attempts : Pushed(BatchPreprocess(id, a0)) > 0 => a0 < a]_vars

\* C4 amended: within one run of the process (between two restarts), each
\* attempt the signer starts for a batch id has an index above the current
\* attempt and above every index that run has preprocessed.
C4_MonotonicPerRun ==
  [][\A id \in Ids, a \in Attempts :
       (Calls(CallOps, id) /\ last'.attempt = a
          /\ last'.res \in {"started", "replayed"}) =>
         /\ \A c \in attempt[id] : c < a
         /\ \A a0 \in Attempts : InEvents(BatchPreprocess(id, a0)) => a0 < a]_vars

\* one run preprocessed two attempts of a batch
C4_Witness ==
  \E id \in Ids, i, j \in DOMAIN events :
    /\ i < j
    /\ events[i].type = "BatchPreprocess" /\ events[i].id.id = id
    /\ events[j].type = "BatchPreprocess" /\ events[j].id.id = id
    /\ last.res = "started"

\* ------------------------------------------------------------------- C5
\* the events of one attempt
IsFor(ev, id, a) == ev.type \in {"BatchPreprocess", "BatchShare"} /\ ev.id = SignId(id, a)

\* C5 (round ordering): a push of a BatchPreprocess is the first push for its
\* attempt; a BatchShare is pushed only by handle(BatchPreprocesses) of the
\* same attempt, after its BatchPreprocess and never twice; a SignedBatch is
\* pushed only by handle(BatchShares), after the BatchShare of the attempt
\* that call names, and never twice for the batch.
C5_RoundOrdering ==
  [][\A ev \in BagToSet(emitted') :
       Pushes(ev) =>
         /\ Pushed(ev) = 0
         /\ ev.type = "BatchPreprocess" =>
              \A old \in EverPushed : ~IsFor(old, ev.id.id, ev.id.attempt)
         /\ ev.type = "BatchShare" =>
              /\ last'.op = "BatchPreprocesses"
              /\ SignId(last'.id, last'.attempt) = ev.id
              /\ Pushed(BatchPreprocess(ev.id.id, ev.id.attempt)) = 1
              /\ \A old \in EverPushed :
                   old.type = "BatchShare" => old.id # ev.id
         /\ ev.type = "SignedBatch" =>
              /\ last'.op = "BatchShares"
              /\ last'.id = ev.batch.block
              /\ \E old \in EverPushed :
                   /\ old.type = "BatchShare"
                   /\ old.id = SignId(last'.id, last'.attempt)
              /\ \A old \in EverPushed :
                   old.type = "SignedBatch" => old.batch.block # ev.batch.block]_vars

\* one run pushed all three events of an attempt above 0, in order
C5_Witness ==
  \E i, j, k \in DOMAIN events :
    /\ i < j /\ j < k
    /\ events[i].type = "BatchPreprocess"
    /\ events[j].type = "BatchShare" /\ events[j].id = events[i].id
    /\ events[k].type = "SignedBatch"
    /\ events[i].id.attempt > 0
    /\ last.attempt = events[i].id.attempt

\* ------------------------------------------------------------------- C6
\* C6 as stated: a handle call of any of the three kinds whose attempt index
\* is not the current in-memory attempt of its batch changes nothing.
C6_IdVerificationAllKinds ==
  [][\A id \in Ids :
       (Calls(HandleOps, id) /\ attempt[id] # {last'.attempt}) => NoEffect]_vars

\* C6 amended: handle(BatchPreprocesses) and handle(BatchShares) whose attempt
\* index is not the current in-memory attempt of the batch (or whose batch has
\* none) change nothing; handle(BatchReattempt) is not checked by verify_id.
C6_IdVerification ==
  [][\A id \in Ids :
       (Calls({"BatchPreprocesses", "BatchShares"}, id)
          /\ attempt[id] # {last'.attempt}) => NoEffect]_vars

\* a round message for another attempt was dropped while the machine it would
\* have advanced was in place
C6_Witness ==
  /\ last.res = "badId"
  /\ attempt[last.id] # {}
  /\ \/ last.op = "BatchPreprocesses" /\ preprocessing[last.id] # {}
     \/ last.op = "BatchShares" /\ signing[last.id] # {}

\* ------------------------------------------------------------------- C7
\* C7 (signed payload consistency): the signature of every SignedBatch ever
\* pushed is over the encoding of the Batch it is pushed with.
C7_PayloadConsistency ==
  \A ev \in EverPushed :
    ev.type = "SignedBatch" => ev.signature.msg = Encode(ev.batch)

\* ------------------------------------------------------------------- C8
\* a process before the latest restart pushed the preprocess of attempt 0
PreprocessedBeforeRestart(id) ==
  /\ Pushed(BatchPreprocess(id, 0)) > 0
  /\ ~InEvents(BatchPreprocess(id, 0))

\* the step starts attempt a of id: sentinel committed, preprocess pushed
Honors(id, a) ==
  /\ SignId(id, a) \in dbAttempt'
  /\ Pushes(BatchPreprocess(id, a))
  /\ attempt'[id] = {a}

\* C8 as stated: once attempt 0 was preprocessed and the process restarted, a
\* BatchReattempt for attempt 0 pushes nothing and a BatchReattempt for
\* attempt 1 is honored by the new process.
C8_RebootRecoveryDirect ==
  [][\A id \in Ids :
       (Calls({"BatchReattempt"}, id) /\ PreprocessedBeforeRestart(id)
          /\ id \notin dbCompleted /\ SignId(id, 1) \notin dbAttempt
          /\ attempt[id] \subseteq {0}) =>
         /\ last'.attempt = 0 => emitted' = emitted
         /\ last'.attempt = 1 => Honors(id, 1)]_vars

\* C8 amended: in that situation a BatchReattempt for attempt 0 pushes
\* nothing; a BatchReattempt for attempt 1 is honored once sign has put the
\* batch back into signable, and is dropped without any effect before that.
C8_RebootRecovery ==
  [][\A id \in Ids :
       (Calls({"BatchReattempt"}, id) /\ PreprocessedBeforeRestart(id)
          /\ id \notin dbCompleted /\ SignId(id, 1) \notin dbAttempt
          /\ attempt[id] \subseteq {0}) =>
         /\ last'.attempt = 0 => emitted' = emitted
         /\ (last'.attempt = 1 /\ signable[id] # {}) => Honors(id, 1)
         /\ (last'.attempt = 1 /\ signable[id] = {}) => NoEffect]_vars

\* the restarted process preprocessed attempt 1 on a BatchReattempt
C8_Witness ==
  /\ last.op = "BatchReattempt" /\ last.attempt = 1 /\ last.res = "started"
  /\ PreprocessedBeforeRestart(last.id)
  /\ InEvents(BatchPreprocess(last.id, 1))

\* ------------------------------------------------------------------- C9
\* C9 (duplicate sign): sign for a batch id with an active session changes
\* nothing.
C9_DuplicateSignNoop ==
  [][\A id \in Ids :
       (Calls({"sign"}, id) /\ attempt[id] # {} /\ id \notin dbCompleted)
         => NoEffect]_vars

\* ------------------------------------------------------------------ C10
\* C10 (malicious share): after handle(BatchShares) met a bad share for the
\* current attempt 0, no SignedBatch was pushed, Completed is not set, and the
\* signer is there to start attempt 1 on a BatchReattempt.
C10_MaliciousShare ==
  \A id \in Ids :
    (last.op = "BatchShares" /\ last.id = id /\ last.res = "malicious"
       /\ last.attempt = 0 /\ SignId(id, 1) \notin dbAttempt) =>
      /\ \A ev \in EverPushed : ev.type # "SignedBatch"
      /\ id \notin dbCompleted
      /\ ~panicked
      /\ AttemptOutcome(id, 1, signable) = "started"

\* ------------------------------------------------------------------ C11
\* nothing was ever stored or pushed for any batch, and the maps are empty
Untouched ==
  /\ dbCompleted = {} /\ dbAttempt = {} /\ dbBatch = EmptyMap
  /\ signable = EmptyMap /\ attempt = EmptyMap
  /\ preprocessing = EmptyMap /\ signing = EmptyMap
  /\ events = <<>> /\ emitted = EmptyBag

\* all that was ever pushed is what the running process pushed
OnlyThisRun == \A ev \in EverPushed : InEvents(ev) /\ Pushed(ev) = 1

\* C11 (happy path): on a batch id without store records, sign pushes the
\* BatchPreprocess of attempt 0; the valid BatchPreprocesses that follows
\* pushes the BatchShare of attempt 0; the valid BatchShares that follows
\* pushes the SignedBatch as the third event, leaves Attempted(GK,B,0),
\* Completed(B) and Batch(B) in the store and no entry for B in the four maps.
C11_HappyPath ==
  [][\A id \in Ids :
       /\ (Calls({"sign"}, id) /\ Untouched) =>
            /\ events' = <<BatchPreprocess(id, 0)>>
            /\ dbAttempt' = {SignId(id, 0)}
       /\ (Calls({"BatchPreprocesses"}, id) /\ last'.attempt = 0
             /\ last'.res # "malicious"
             /\ last.op = "sign" /\ last.res = "started" /\ OnlyThisRun
             /\ events = <<BatchPreprocess(id, 0)>>) =>
            /\ Len(events') = 2
            /\ events'[1] = BatchPreprocess(id, 0)
            /\ events'[2].type = "BatchShare" /\ events'[2].id = SignId(id, 0)
       /\ (Calls({"BatchShares"}, id) /\ last'.attempt = 0
             /\ last'.res # "malicious"
             /\ last.op = "BatchPreprocesses" /\ last.res = "shared"
             /\ last.attempt = 0 /\ OnlyThisRun
             /\ Len(events) = 2
             /\ events[1] = BatchPreprocess(id, 0)
             /\ events[2].type = "BatchShare" /\ events[2].id = SignId(id, 0)) =>
            /\ Len(events') = 3
            /\ events'[1] = events[1] /\ events'[2] = events[2]
            /\ events'[3].type = "SignedBatch" /\ events'[3].batch.block = id
            /\ dbAttempt' = {SignId(id, 0)}
            /\ id \in dbCompleted'
            /\ dbBatch'[id] = {events'[3]}
            /\ signable'[id] = {} /\ attempt'[id] = {}
            /\ preprocessing'[id] = {} /\ signing'[id] = {}]_vars

\* the three calls ran, in one process, on a store that had no records
C11_Witness ==
  /\ last.op = "BatchShares" /\ last.res = "signed" /\ last.attempt = 0
  /\ OnlyThisRun
  /\ Len(events) = 3
  /\ events[1].type = "BatchPreprocess"
  /\ events[2].type = "BatchShare"
  /\ events[3].type = "SignedBatch"
  /\ dbAttempt = {SignId(last.id, 0)}

\* ------------------------------------------------------------------ C12
\* C12 (Attempted before preprocess): every BatchPreprocess ever pushed has
\* the Attempted sentinel of its SignId in the store.
C12_AttemptedBeforePreprocess ==
  \A ev \in EverPushed : ev.type = "BatchPreprocess" => ev.id \in dbAttempt

\* a crash after the commit left a sentinel without its preprocess, next to
\* a preprocess that was pushed with its sentinel
C12_Witness ==
  /\ last.op = "crashInAttempt"
  /\ Pushed(BatchPreprocess(last.id, last.attempt)) = 0
  /\ SignId(last.id, last.attempt) \in dbAttempt
  /\ \E ev \in EverPushed : ev.type = "BatchPreprocess"

\* ------------------------------------------------------------------ C13
\* C13 (in-memory attempt never decreases): a step that finds attempt[id]
\* present and leaves it present does not lower it, and no step inserts
\* attempt[id] for a batch whose Completed sentinel is set.
C13_AttemptNeverDecreases ==
  [][\A id \in Ids :
       /\ \A c \in attempt[id], d \in attempt'[id] : d >= c
       /\ id \in dbCompleted => attempt'[id] = {}]_vars

\* a reattempt raised the attempt of a session that had a machine at work
C13_Witness ==
  /\ last.op = "BatchReattempt"
  /\ last.res \in {"started", "replayed"}
  /\ attempt[last.id] = {last.attempt}
  /\ \E a0 \in Attempts : a0 < last.attempt /\ InEvents(BatchPreprocess(last.id, a0))

\* ------------------------------------------------------------------ C14
\* C14 (machine exclusivity): no batch id has a round-one and a round-two
\* machine at once; the step that stores the round-two machine and pushes the
\* BatchShare leaves no round-one machine, and a step that starts an attempt
\* leaves no round-two machine and no round-one machine of another attempt.
C14_MachineExclusivity ==
  /\ [](\A id \in Ids : preprocessing[id] = {} \/ signing[id] = {})
  /\ [][\A id \in Ids :
          /\ (signing'[id] # {} /\ signing'[id] # signing[id]) =>
               preprocessing'[id] = {}
          /\ (Calls({"sign", "BatchReattempt"}, id) /\ attempt'[id] # attempt[id]) =>
               /\ signing'[id] = {}
               /\ \A m \in preprocessing'[id] :
                    m.nonces = SignId(id, last'.attempt)]_vars

\* the round-two machine is in place, the round-one machine it came from gone
C14_Witness ==
  /\ last.op = "BatchPreprocesses" /\ last.res = "shared"
  /\ signing[last.id] # {}
  /\ preprocessing[last.id] = {}

\* ------------------------------------------------------------------ C15
\* C15 (no session outlives its terminal transition): a batch whose
\* Completed sentinel is set has no entry in any of the four maps.
C15_NoSessionAfterCompleted ==
  \A id \in Ids :
    id \in dbCompleted =>
      /\ signable[id] = {} /\ attempt[id] = {}
      /\ preprocessing[id] = {} /\ signing[id] = {}

\* batch_signed ended a session the running process had started
C15_Witness ==
  /\ last.op = "batch_signed"
  /\ last.id \in dbCompleted
  /\ \E a \in Attempts : InEvents(BatchPreprocess(last.id, a))

\* ------------------------------------------------------------------ C16
\* C16 (reattempt with a higher index): a BatchReattempt above the current
\* attempt of an active, not completed batch, for a SignId not yet attempted,
\* drops the old machines, sets the attempt, commits the sentinel, stores a
\* fresh round-one machine and pushes exactly one BatchPreprocess for the new
\* attempt; signable is unchanged.
C16_ReattemptHigher ==
  [][\A id \in Ids, a \in Attempts :
       (Calls({"BatchReattempt"}, id) /\ last'.attempt = a
          /\ attempt[id] # {} /\ (\A c \in attempt[id] : c < a)
          /\ id \notin dbCompleted /\ SignId(id, a) \notin dbAttempt) =>
         /\ signing'[id] = {}
         /\ Cardinality(preprocessing'[id]) = 1
         /\ preprocessing'[id] # preprocessing[id]
         /\ attempt'[id] = {a}
         /\ dbAttempt' = dbAttempt \cup {SignId(id, a)}
         /\ events' = Append(events, BatchPreprocess(id, a))
         /\ signable' = signable
         /\ UNCHANGED <<dbCompleted, dbBatch>>]_vars

\* a reattempt replaced a session that was already in its second round
C16_Witness ==
  /\ last.op = "BatchReattempt" /\ last.res = "started"
  /\ InEvents(BatchPreprocess(last.id, last.attempt))
  /\ \E i \in DOMAIN events :
       /\ events[i].type = "BatchShare"
       /\ events[i].id.attempt < last.attempt
  /\ preprocessing[last.id] # {}

\* ------------------------------------------------------------------ C17
\* C17 (stale round messages are dropped): a BatchPreprocesses or BatchShares
\* for an attempt below the current one, or for a batch with no attempt
\* recorded, changes nothing: the machines of the current attempt stay.
C17_StaleDropped ==
  [][\A id \in Ids :
       (Calls({"BatchPreprocesses", "BatchShares"}, id)
          /\ \A c \in attempt[id] : last'.attempt < c) =>
         /\ NoEffect
         /\ ~panicked']_vars

\* a round message of a lower attempt met the machine of the current attempt
C17_Witness ==
  /\ last.op \in {"BatchPreprocesses", "BatchShares"}
  /\ \E c \in attempt[last.id] : last.attempt < c
  /\ preprocessing[last.id] # {} \/ signing[last.id] # {}
  /\ InEvents(BatchPreprocess(last.id, last.attempt))

\* ------------------------------------------------------------------ C18
\* C18 (shares before preprocesses): a BatchShares for the current attempt
\* that finds no round-two machine panics when the round-one machine is in
\* place, and is dropped without any effect when it is not.
C18_SharesBeforePreprocesses ==
  [][\A id \in Ids :
       (Calls({"BatchShares"}, id) /\ attempt[id] = {last'.attempt}
          /\ signing[id] = {}) =>
         /\ preprocessing[id] # {} =>
              (panicked' /\ UNCHANGED <<store, events, emitted>>)
         /\ preprocessing[id] = {} => (NoEffect /\ ~panicked')]_vars

\* sign, then BatchShares for attempt 0: the process has panicked
C18_Witness ==
  /\ panicked
  /\ last.op = "BatchShares" /\ last.attempt = 0
  /\ events = <<BatchPreprocess(last.id, 0)>>
  /\ OnlyThisRun
  /\ preprocessing[last.id] # {}

\* ------------------------------------------------------------------ C19
\* the session of id is active and has no machine
Stalled(id) ==
  /\ attempt[id] # {} /\ id \notin dbCompleted
  /\ preprocessing[id] = {} /\ signing[id] = {}

\* C19 (replay guard post-state): a sign or BatchReattempt that passes the
\* Completed, current-attempt and signable checks for a SignId whose
\* Attempted sentinel is set pushes nothing and writes nothing to the store,
\* but leaves no machine and the requested index as the attempt; from a
\* session without machines, only batch_signed or a BatchReattempt with a
\* higher, never attempted index writes to the store, pushes an event or
\* brings a machine back.
C19_ReplayGuard ==
  [][\A id \in Ids :
       /\ (Calls({"sign", "BatchReattempt"}, id)
             /\ id \notin dbCompleted
             /\ (\A c \in attempt[id] : c < last'.attempt)
             /\ signable'[id] # {}
             /\ SignId(id, last'.attempt) \in dbAttempt) =>
            /\ UNCHANGED <<store, events, emitted>>
            /\ preprocessing'[id] = {} /\ signing'[id] = {}
            /\ attempt'[id] = {last'.attempt}
       /\ (Stalled(id)
             /\ (store' # store \/ emitted' # emitted
                   \/ preprocessing'[id] # {} \/ signing'[id] # {})) =>
            \/ last'.op = "batch_signed"
            \/ /\ last'.op \in {"BatchReattempt", "crashInAttempt"}
               /\ \A c \in attempt[id] : c < last'.attempt
               /\ SignId(id, last'.attempt) \notin dbAttempt]_vars

\* the replay guard stopped a reattempt after it had removed the machine of
\* the attempt the process was working on
C19_Witness ==
  /\ last.op = "BatchReattempt" /\ last.res = "replayed"
  /\ Stalled(last.id)
  /\ attempt[last.id] = {last.attempt}
  /\ \E a0 \in Attempts : a0 < last.attempt /\ InEvents(BatchPreprocess(last.id, a0))

\* ------------------------------------------------------------------ C20
\* C20 (session-table consistency): signable and attempt hold the same batch
\* ids and every batch id with a machine is in both, so no call ends in the
\* missing-batch panic of signable[id] or of signable.remove(id).unwrap(), nor
\* in a failed assertion after the commit.
C20_TableConsistency ==
  \A id \in Ids :
    /\ (signable[id] # {}) <=> (attempt[id] # {})
    /\ (preprocessing[id] # {} \/ signing[id] # {}) =>
         (signable[id] # {} /\ attempt[id] # {})
    /\ last.res \notin {"noBatch", "assertFailed"}

\* the lookup of signable[id] in handle(BatchPreprocesses) just succeeded
C20_Witness ==
  /\ last.op = "BatchPreprocesses" /\ last.res = "shared"
  /\ signable[last.id] # {} /\ attempt[last.id] # {}
  /\ signing[last.id] # {}
  /\ last.attempt > 0

====
